---------------------------- MODULE Spec2Model ----------------------------
(***************************************************************************)
(* helix-ui: a pseudo-terminal reader thread feeds the child's bytes       *)
(* through a vte parser into ANSIParser (a 25 x 81 grid of cells, a write  *)
(* position and the current colours) and submits a copy of the grid and    *)
(* the cursor to the UI after every chunk; the UI delegate installs each   *)
(* copy and quits on the final command.  The UI also maps key-down events *)
(* to bytes written to the pseudo-terminal, and draws the grid and the     *)
(* cursor it holds.                                                        *)
(*                                                                         *)
(* Conventions.  A byte is a number in 0..127 (the UTF-8 lead bytes of     *)
(* vte are outside this model); a char is its code.  Option<T> is <<>>     *)
(* for None and <<x>> for Some(x).  The grid Vec<Vec<Cell>> is the total   *)
(* array over 0..24 x 0..80, stored by its cells that differ from          *)
(* Cell::new(): GridAt(g, r, c) is g[r][c] for every index of the array.   *)
(***************************************************************************)
EXTENDS Integers, Sequences, FiniteSets

VARIABLES
    pty,        \* bytes the child has written and the reader has not read yet
    closed,     \* the child has exited: the slave side is closed
    nwrites,    \* number of writes of the child so far
    wpc,        \* reader thread: "read", "feed", "publish", "destroy", "done", "panicked"
    buf,        \* reader thread: let mut buf = [0u8; 128]
    len,        \* reader thread: the len of while let Ok(len), 0 outside the loop body
    parser,     \* reader thread: let mut parser = Parser::new()
    ansi,       \* reader thread: let mut ansi = ANSIParser::new()
    panic,      \* why the reader thread panicked, "none" while it has not
    queue,      \* commands submitted to the event sink and not yet delivered
    app,        \* the UI's AppState: [grid, cursor_pos]
    quit,       \* Application::global().quit() has been called
    stream,     \* history: every byte read() has returned, in order
    written,    \* history: the indexes [row][col] that print has assigned to
    published,  \* history: the HelixUIState of every UPDATE_UI submitted, in order
    nreads,     \* history: number of reads that returned Ok(len) with len > 0
    lastread,   \* history: "none", "data", "eof" or "err": how the last read returned
    ndestroy,   \* history: number of DESTROY_UI commands submitted
    appseq,     \* history: which UPDATE_UI (1, 2, ...) the AppState was copied from, 0 for none
    ptyin,      \* bytes written to the master side: the child's input, in order of arrival
    keylog,     \* history: what Delegate::event did with every event, in order
    drawn       \* what the last call of the Painter closure did, None before the first

vars == <<pty, closed, nwrites, wpc, buf, len, parser, ansi, panic, queue, app,
          quit, stream, written, published, nreads, lastread, ndestroy, appseq,
          ptyin, keylog, drawn>>

envVars    == <<pty, closed, nwrites>>
workerVars == <<wpc, buf, len, parser, ansi, panic>>
uiVars     == <<app, quit>>
histVars   == <<stream, written, published, nreads, lastread, ndestroy, appseq>>
frontVars  == <<ptyin, keylog, drawn>>

-----------------------------------------------------------------------------
(* Program constants *)

ROWS == 25
COLS == 81
BUF_LEN == 128
MAX_PARAMS == 32
MAX_INTERMEDIATES == 2
U16_MAX == 65535

NEWLINE_CHAR == 10
SPACE_CHAR == 32
ESC_CHAR == 27
BELL_CHAR == 7

(* Bounds of the model *)

MaxWrites == 2      \* writes of the child
MaxPending == 1     \* the child writes while fewer bytes than this are unread
MaxReads == 3       \* reads that return data
MaxSeq == 3         \* control sequences and texts in one input of the interpreter
MaxKeys == 2        \* events handled by Delegate::event

-----------------------------------------------------------------------------
(* Option and arithmetic helpers *)

None == <<>>
Some(x) == <<x>>

Min(a, b) == IF a <= b THEN a ELSE b

\* u16::saturating_mul(10) followed by u16::saturating_add(d)
SaturatingMul10Add(p, d) == Min(Min(p * 10, U16_MAX) + d, U16_MAX)

-----------------------------------------------------------------------------
(* struct Cell *)

CellNew == [content |-> SPACE_CHAR, bg |-> None, fg |-> None]

\* Color::rgb(r / 255.0, g / 255.0, b / 255.0): every channel is clamped to
\* [0.0, 1.0] and stored as round(x * 255) in 8 bits.
ColorRgb(color) == <<Min(color[1], 255), Min(color[2], 255), Min(color[3], 255)>>

set_content(cell, c) == [cell EXCEPT !.content = c]

set_bg(cell, color) ==
    IF color # None THEN [cell EXCEPT !.bg = Some(ColorRgb(color[1]))]
                    ELSE [cell EXCEPT !.bg = None]

\* (mutant of set_fg: the foreground is never stored)
set_fgNone(cell, color) == [cell EXCEPT !.fg = None]

set_fg(cell, color) ==
    IF color # None THEN [cell EXCEPT !.fg = Some(ColorRgb(color[1]))]
                    ELSE [cell EXCEPT !.fg = None]

-----------------------------------------------------------------------------
(* The grid: vec![vec![Cell::new(); 81]; 25] *)

GridIndexes == (0..(ROWS - 1)) \X (0..(COLS - 1))

GridNew == [ix \in {} |-> CellNew]

GridAt(g, r, c) == IF <<r, c>> \in DOMAIN g THEN g[<<r, c>>] ELSE CellNew

\* g[r][c] = cell, for an index inside the array
GridSet(g, r, c, cell) ==
    LET keep == IF cell = CellNew THEN DOMAIN g \ {<<r, c>>}
                                  ELSE DOMAIN g \cup {<<r, c>>}
    IN  [ix \in keep |-> IF ix = <<r, c>> THEN cell ELSE g[ix]]

\* (mutant of InGrid: the index is not checked)
InGridUnchecked(r, c) == TRUE

\* self.grid[self.row][self.col] is in bounds
InGrid(r, c) == r < ROWS /\ c < COLS

-----------------------------------------------------------------------------
(* struct ANSIParser, and the run of the interpreter: what one call of    *)
(* parser.advance(&mut ansi, b) works on.  rs.panic records a panic of    *)
(* the thread; rs.written is the history of assigned indexes.             *)

ANSIParserNew ==
    [row |-> 0, col |-> 0, grid |-> GridNew, current_fg |-> None, current_bg |-> None]

\* (mutant of print: the two colours are exchanged)
printSwapped(rs, c) ==
    LET a == rs.ansi IN
    IF ~InGrid(a.row, a.col)
    THEN [rs EXCEPT !.panic = "grid index out of bounds"]
    ELSE LET cell == set_fg(set_bg(set_content(GridAt(a.grid, a.row, a.col), c),
                                   a.current_fg), a.current_bg)
         IN  [rs EXCEPT !.ansi.grid = GridSet(a.grid, a.row, a.col, cell),
                        !.ansi.col = a.col + 1,
                        !.written = rs.written \cup {<<a.row, a.col>>}]

\* (mutant of print: the colours are used up by the character)
printOnce(rs, c) ==
    LET a == rs.ansi IN
    IF ~InGrid(a.row, a.col)
    THEN [rs EXCEPT !.panic = "grid index out of bounds"]
    ELSE LET cell == set_fg(set_bg(set_content(GridAt(a.grid, a.row, a.col), c),
                                   a.current_bg), a.current_fg)
         IN  [rs EXCEPT !.ansi.grid = GridSet(a.grid, a.row, a.col, cell),
                        !.ansi.col = a.col + 1,
                        !.ansi.current_fg = None,
                        !.ansi.current_bg = None,
                        !.written = rs.written \cup {<<a.row, a.col>>}]

\* fn print(&mut self, c: char)
print(rs, c) ==
    LET a == rs.ansi IN
    IF ~InGrid(a.row, a.col)
    THEN [rs EXCEPT !.panic = "grid index out of bounds"]
    ELSE LET cell == set_fg(set_bg(set_content(GridAt(a.grid, a.row, a.col), c),
                                   a.current_bg), a.current_fg)
         IN  [rs EXCEPT !.ansi.grid = GridSet(a.grid, a.row, a.col, cell),
                        !.ansi.col = a.col + 1,
                        !.written = rs.written \cup {<<a.row, a.col>>}]

\* params.iter().flatten().collect()
RECURSIVE Flatten(_)
Flatten(groups) ==
    IF groups = <<>> THEN <<>> ELSE Head(groups) \o Flatten(Tail(groups))

Take(s, n) == SubSeq(s, 1, Min(n, Len(s)))

\* (mutant of csi_m: 38 sets the background and 48 the foreground)
csi_mExchanged(rs, params) ==
    LET pm == Flatten(params)
        header == Take(pm, 2)
    IN  CASE header = <<38, 2>> ->
                IF Len(pm) < 5 THEN [rs EXCEPT !.panic = "pm index out of bounds"]
                ELSE [rs EXCEPT !.ansi.current_bg = Some(<<pm[3], pm[4], pm[5]>>)]
          [] header = <<48, 2>> ->
                IF Len(pm) < 5 THEN [rs EXCEPT !.panic = "pm index out of bounds"]
                ELSE [rs EXCEPT !.ansi.current_fg = Some(<<pm[3], pm[4], pm[5]>>)]
          [] header = <<39>> -> [rs EXCEPT !.ansi.current_fg = None]
          [] header = <<49>> -> [rs EXCEPT !.ansi.current_bg = None]
          [] header = <<0>> -> [rs EXCEPT !.ansi.current_fg = None,
                                         !.ansi.current_bg = None]
          [] OTHER -> rs

\* the 'm' arm of csi_dispatch
csi_m(rs, params) ==
    LET pm == Flatten(params)
        header == Take(pm, 2)
    IN  CASE header = <<38, 2>> ->
                IF Len(pm) < 5 THEN [rs EXCEPT !.panic = "pm index out of bounds"]
                ELSE [rs EXCEPT !.ansi.current_fg = Some(<<pm[3], pm[4], pm[5]>>)]
          [] header = <<48, 2>> ->
                IF Len(pm) < 5 THEN [rs EXCEPT !.panic = "pm index out of bounds"]
                ELSE [rs EXCEPT !.ansi.current_bg = Some(<<pm[3], pm[4], pm[5]>>)]
          [] header = <<39>> -> [rs EXCEPT !.ansi.current_fg = None]
          [] header = <<49>> -> [rs EXCEPT !.ansi.current_bg = None]
          [] header = <<0>> -> [rs EXCEPT !.ansi.current_fg = None,
                                         !.ansi.current_bg = None]
          [] OTHER -> rs

\* (mutant of csi_H: the wire's 1-based position is made 0-based)
csi_H_OneBased(rs, params) ==
    IF Len(params) < 2
    THEN [rs EXCEPT !.panic = "unwrap on None"]
    ELSE [rs EXCEPT !.ansi.row = params[1][1] - 1, !.ansi.col = params[2][1] - 1]

\* the 'H' arm of csi_dispatch
csi_H(rs, params) ==
    IF Len(params) < 2
    THEN [rs EXCEPT !.panic = "unwrap on None"]
    ELSE [rs EXCEPT !.ansi.row = params[1][1], !.ansi.col = params[2][1]]

\* (mutant of csi_dispatch: every terminator but 'm' positions the cursor)
csi_dispatchAnyFinal(rs, params, c) ==
    IF c = 109 THEN csi_m(rs, params) ELSE csi_H(rs, params)

\* fn csi_dispatch(&mut self, params, _intermediates, _ignore, c)
csi_dispatch(rs, params, c) ==
    CASE c = 109 -> csi_m(rs, params)
      [] c = 72 -> csi_H(rs, params)
      [] OTHER -> rs

\* (mutant of execute: a newline moves to the start of the next row)
executeNewline(rs, byte) ==
    IF byte = NEWLINE_CHAR
    THEN [rs EXCEPT !.ansi.row = rs.ansi.row + 1, !.ansi.col = 0]
    ELSE rs

\* fn execute, hook, put, unhook, osc_dispatch, esc_dispatch: empty bodies
execute(rs, byte) == rs
hook(rs, c) == rs
put(rs, byte) == rs
unhook(rs) == rs
osc_dispatch(rs) == rs
esc_dispatch(rs, byte) == rs

-----------------------------------------------------------------------------
(* vte::Parser, the byte-at-a-time state machine behind parser.advance.    *)
(* Its states and its table of state changes are those of the vte crate    *)
(* (Paul Williams' parser); only the fields that decide what the Perform   *)
(* callbacks receive are kept: the OSC buffer, which only feeds the empty  *)
(* osc_dispatch, is left out.                                              *)

ParserNew ==
    [state |-> "Ground", params |-> <<>>, subparams |-> <<>>, param |-> 0,
     intermediate_idx |-> 0, ignoring |-> FALSE]

C0(b) == b \in 0..23 \/ b = 25 \/ b \in 28..31

\* The table of state changes: <<state, action>>, "Anywhere" for no change
\* of state and "None" for no action.
AnywhereChange(b) ==
    CASE b = 24 \/ b = 26 -> <<"Ground", "Execute">>
      [] b = 27 -> <<"Escape", "None">>
      [] OTHER -> <<"Anywhere", "None">>

GroundChange(b) ==
    CASE C0(b) -> <<"Anywhere", "Execute">>
      [] b \in 32..127 -> <<"Anywhere", "Print">>
      [] OTHER -> <<"Anywhere", "None">>

EscapeChange(b) ==
    CASE C0(b) -> <<"Anywhere", "Execute">>
      [] b = 127 -> <<"Anywhere", "Ignore">>
      [] b \in 32..47 -> <<"EscapeIntermediate", "Collect">>
      [] b = 91 -> <<"CsiEntry", "None">>
      [] b = 93 -> <<"OscString", "None">>
      [] b = 80 -> <<"DcsEntry", "None">>
      [] b = 88 \/ b = 94 \/ b = 95 -> <<"SosPmApcString", "None">>
      [] b \in 48..126 -> <<"Ground", "EscDispatch">>
      [] OTHER -> <<"Anywhere", "None">>

EscapeIntermediateChange(b) ==
    CASE C0(b) -> <<"Anywhere", "Execute">>
      [] b \in 32..47 -> <<"Anywhere", "Collect">>
      [] b = 127 -> <<"Anywhere", "Ignore">>
      [] b \in 48..126 -> <<"Ground", "EscDispatch">>
      [] OTHER -> <<"Anywhere", "None">>

CsiEntryChange(b) ==
    CASE C0(b) -> <<"Anywhere", "Execute">>
      [] b = 127 -> <<"Anywhere", "Ignore">>
      [] b \in 32..47 -> <<"CsiIntermediate", "Collect">>
      [] b \in 48..59 -> <<"CsiParam", "Param">>
      [] b \in 60..63 -> <<"CsiParam", "Collect">>
      [] b \in 64..126 -> <<"Ground", "CsiDispatch">>
      [] OTHER -> <<"Anywhere", "None">>

CsiParamChange(b) ==
    CASE C0(b) -> <<"Anywhere", "Execute">>
      [] b \in 48..59 -> <<"Anywhere", "Param">>
      [] b = 127 -> <<"Anywhere", "Ignore">>
      [] b \in 60..63 -> <<"CsiIgnore", "None">>
      [] b \in 32..47 -> <<"CsiIntermediate", "Collect">>
      [] b \in 64..126 -> <<"Ground", "CsiDispatch">>
      [] OTHER -> <<"Anywhere", "None">>

CsiIntermediateChange(b) ==
    CASE C0(b) -> <<"Anywhere", "Execute">>
      [] b \in 32..47 -> <<"Anywhere", "Collect">>
      [] b = 127 -> <<"Anywhere", "Ignore">>
      [] b \in 48..63 -> <<"CsiIgnore", "None">>
      [] b \in 64..126 -> <<"Ground", "CsiDispatch">>
      [] OTHER -> <<"Anywhere", "None">>

CsiIgnoreChange(b) ==
    CASE C0(b) -> <<"Anywhere", "Execute">>
      [] b \in 32..63 \/ b = 127 -> <<"Anywhere", "Ignore">>
      [] b \in 64..126 -> <<"Ground", "None">>
      [] OTHER -> <<"Anywhere", "None">>

DcsEntryChange(b) ==
    CASE C0(b) \/ b = 127 -> <<"Anywhere", "Ignore">>
      [] b \in 32..47 -> <<"DcsIntermediate", "Collect">>
      [] b \in 48..59 -> <<"DcsParam", "Param">>
      [] b \in 60..63 -> <<"DcsParam", "Collect">>
      [] b \in 64..126 -> <<"DcsPassthrough", "None">>
      [] OTHER -> <<"Anywhere", "None">>

DcsParamChange(b) ==
    CASE C0(b) \/ b = 127 -> <<"Anywhere", "Ignore">>
      [] b \in 48..59 -> <<"Anywhere", "Param">>
      [] b \in 60..63 -> <<"DcsIgnore", "None">>
      [] b \in 32..47 -> <<"DcsIntermediate", "Collect">>
      [] b \in 64..126 -> <<"DcsPassthrough", "None">>
      [] OTHER -> <<"Anywhere", "None">>

DcsIntermediateChange(b) ==
    CASE C0(b) \/ b = 127 -> <<"Anywhere", "Ignore">>
      [] b \in 32..47 -> <<"Anywhere", "Collect">>
      [] b \in 48..63 -> <<"DcsIgnore", "None">>
      [] b \in 64..126 -> <<"DcsPassthrough", "None">>
      [] OTHER -> <<"Anywhere", "None">>

DcsPassthroughChange(b) ==
    CASE C0(b) \/ b \in 32..126 -> <<"Anywhere", "Put">>
      [] b = 127 -> <<"Anywhere", "Ignore">>
      [] OTHER -> <<"Anywhere", "None">>

\* DcsIgnore and SosPmApcString
StringIgnoreChange(b) ==
    CASE C0(b) \/ b \in 32..127 -> <<"Anywhere", "Ignore">>
      [] OTHER -> <<"Anywhere", "None">>

OscStringChange(b) ==
    CASE b = 7 -> <<"Ground", "None">>
      [] C0(b) -> <<"Anywhere", "Ignore">>
      [] b \in 32..127 -> <<"Anywhere", "OscPut">>
      [] OTHER -> <<"Anywhere", "None">>

StateChange(state, b) ==
    CASE state = "Ground" -> GroundChange(b)
      [] state = "Escape" -> EscapeChange(b)
      [] state = "EscapeIntermediate" -> EscapeIntermediateChange(b)
      [] state = "CsiEntry" -> CsiEntryChange(b)
      [] state = "CsiParam" -> CsiParamChange(b)
      [] state = "CsiIntermediate" -> CsiIntermediateChange(b)
      [] state = "CsiIgnore" -> CsiIgnoreChange(b)
      [] state = "DcsEntry" -> DcsEntryChange(b)
      [] state = "DcsParam" -> DcsParamChange(b)
      [] state = "DcsIntermediate" -> DcsIntermediateChange(b)
      [] state = "DcsPassthrough" -> DcsPassthroughChange(b)
      [] state = "DcsIgnore" -> StringIgnoreChange(b)
      [] state = "SosPmApcString" -> StringIgnoreChange(b)
      [] state = "OscString" -> OscStringChange(b)

\* Params: the groups pushed so far (params) and the subparameters of the
\* group still open (subparams); is_full counts both.
ParamsLen(p) == Len(Flatten(p.params)) + Len(p.subparams)
ParamsIsFull(p) == ParamsLen(p) = MAX_PARAMS

\* Params::push(item): closes the open group
ParamsPush(p, item) ==
    [p EXCEPT !.params = Append(p.params, Append(p.subparams, item)),
              !.subparams = <<>>]

\* Params::extend(item): one more subparameter of the open group
ParamsExtend(p, item) == [p EXCEPT !.subparams = Append(p.subparams, item)]

\* Action::Clear
ActionClear(p) ==
    [p EXCEPT !.intermediate_idx = 0, !.ignoring = FALSE, !.param = 0,
              !.params = <<>>, !.subparams = <<>>]

\* Action::Collect
ActionCollect(p) ==
    IF p.intermediate_idx = MAX_INTERMEDIATES
    THEN [p EXCEPT !.ignoring = TRUE]
    ELSE [p EXCEPT !.intermediate_idx = p.intermediate_idx + 1]

\* Action::Param
ActionParam(p, b) ==
    IF ParamsIsFull(p) THEN [p EXCEPT !.ignoring = TRUE]
    ELSE IF b = 59 THEN [ParamsPush(p, p.param) EXCEPT !.param = 0]
    ELSE IF b = 58 THEN [ParamsExtend(p, p.param) EXCEPT !.param = 0]
    ELSE [p EXCEPT !.param = SaturatingMul10Add(p.param, b - 48)]

\* Action::CsiDispatch, Action::Hook: the pending parameter is pushed first
ParamsAtDispatch(p) ==
    IF ParamsIsFull(p) THEN [p EXCEPT !.ignoring = TRUE]
                       ELSE ParamsPush(p, p.param)

\* Parser::perform_action
PerformAction(rs, action, b) ==
    CASE action = "Print" -> print(rs, b)
      [] action = "Execute" -> execute(rs, b)
      [] action = "Put" -> put(rs, b)
      [] action = "Unhook" -> unhook(rs)
      [] action = "OscEnd" -> osc_dispatch(rs)
      [] action = "EscDispatch" -> esc_dispatch(rs, b)
      [] action = "Hook" ->
            hook([rs EXCEPT !.parser = ParamsAtDispatch(rs.parser)], b)
      [] action = "CsiDispatch" ->
            LET p == ParamsAtDispatch(rs.parser)
            IN  csi_dispatch([rs EXCEPT !.parser = p], p.params, b)
      [] action = "Param" -> [rs EXCEPT !.parser = ActionParam(rs.parser, b)]
      [] action = "Collect" -> [rs EXCEPT !.parser = ActionCollect(rs.parser)]
      [] action = "Clear" -> [rs EXCEPT !.parser = ActionClear(rs.parser)]
      [] OTHER -> rs    \* None, Ignore, OscStart, OscPut

ExitAction(state) ==
    CASE state = "DcsPassthrough" -> "Unhook"
      [] state = "OscString" -> "OscEnd"
      [] OTHER -> "None"

EntryAction(state) ==
    CASE state \in {"CsiEntry", "DcsEntry", "Escape"} -> "Clear"
      [] state = "DcsPassthrough" -> "Hook"
      [] state = "OscString" -> "OscStart"
      [] OTHER -> "None"

\* A panic unwinds the thread: nothing after it runs.
Then(rs, action, b) ==
    IF rs.panic # "none" THEN rs ELSE PerformAction(rs, action, b)

\* Parser::perform_state_change
PerformStateChange(rs, state, action, b) ==
    IF state = "Anywhere"
    THEN PerformAction(rs, action, b)
    ELSE LET r1 == Then(rs, ExitAction(rs.parser.state), b)
             r2 == Then(r1, action, b)
             r3 == Then(r2, EntryAction(state), b)
         IN  IF r3.panic # "none" THEN r3 ELSE [r3 EXCEPT !.parser.state = state]

\* Parser::advance(&mut self, performer, byte)
advance(rs, b) ==
    LET any == AnywhereChange(b)
        change == IF any = <<"Anywhere", "None">>
                  THEN StateChange(rs.parser.state, b) ELSE any
    IN  PerformStateChange(rs, change[1], change[2], b)

\* for b in &buf[0..len] { parser.advance(&mut ansi, *b); }  over a sequence
RECURSIVE AdvanceAll(_, _)
AdvanceAll(rs, bytes) ==
    IF bytes = <<>> \/ rs.panic # "none" THEN rs
    ELSE AdvanceAll(advance(rs, Head(bytes)), Tail(bytes))

\* The run of the interpreter on a whole stream from the initial state
RunNew == [parser |-> ParserNew, ansi |-> ANSIParserNew, panic |-> "none",
           written |-> {}]


-----------------------------------------------------------------------------
(* The child process on the slave side of the pseudo-terminal: what it may *)
(* write in one write.                                                     *)

\* The decimal digits of n, as bytes
RECURSIVE Decimal(_)
Decimal(n) == IF n < 10 THEN <<48 + n>> ELSE Decimal(n \div 10) \o <<48 + (n % 10)>>

\* p1 ; p2 ; ... as bytes
RECURSIVE ParamBytes(_)
ParamBytes(ps) ==
    IF ps = <<>> THEN <<>>
    ELSE IF Len(ps) = 1 THEN Decimal(ps[1])
    ELSE Decimal(ps[1]) \o <<59>> \o ParamBytes(Tail(ps))

\* ESC [ p1 ; p2 ; ... final
Csi(ps, final) == <<ESC_CHAR, 91>> \o ParamBytes(ps) \o <<final>>

TextAB == <<97, 98>>

Items ==
    { TextAB, <<NEWLINE_CHAR>>,
      Csi(<<5, 80>>, 72), Csi(<<5, 81>>, 72), Csi(<<25, 10>>, 72),
      Csi(<<48, 2, 0, 0, 255>>, 109) }

-----------------------------------------------------------------------------
(* Initial state: main() up to thread::spawn and launch                    *)

BufNew == [i \in 1..BUF_LEN |-> 0]

AppStateNew == [grid |-> GridNew, cursor_pos |-> <<0, 0>>]

\* everything but what the child has written so far
InitRest ==
    /\ closed = FALSE /\ nwrites = 0
    /\ wpc = "read" /\ buf = BufNew /\ len = 0
    /\ parser = ParserNew /\ ansi = ANSIParserNew /\ panic = "none"
    /\ queue = <<>> /\ app = AppStateNew /\ quit = FALSE
    /\ stream = <<>> /\ written = {} /\ published = <<>> /\ nreads = 0
    /\ lastread = "none" /\ ndestroy = 0 /\ appseq = 0
    /\ ptyin = <<>> /\ keylog = <<>> /\ drawn = None

Init == pty = <<>> /\ InitRest

-----------------------------------------------------------------------------
(* The child: writes to the slave side, and exits                          *)

ChildWrite(items) ==
    /\ ~quit /\ ~closed /\ nwrites < MaxWrites /\ Len(pty) < MaxPending
    /\ \E item \in items : pty' = pty \o item
    /\ nwrites' = nwrites + 1
    /\ UNCHANGED <<closed, workerVars, queue, uiVars, histVars,
                   frontVars>>

ChildExit ==
    /\ ~quit /\ ~closed
    /\ closed' = TRUE
    /\ UNCHANGED <<pty, nwrites, workerVars, queue, uiVars, histVars,
                   frontVars>>

-----------------------------------------------------------------------------
(* The reader thread                                                       *)

\* reader.read(&mut buf) returns Ok(n), n > 0: the first n bytes of buf are
\* the next n bytes of the pseudo-terminal; any n up to what is there and
\* up to the size of buf may come back.
ReadData ==
    /\ ~quit /\ wpc = "read" /\ pty # <<>> /\ nreads < MaxReads
    /\ \E n \in 1..Min(BUF_LEN, Len(pty)) :
          /\ buf' = [i \in 1..BUF_LEN |-> IF i <= n THEN pty[i] ELSE buf[i]]
          /\ len' = n
          /\ pty' = SubSeq(pty, n + 1, Len(pty))
          /\ stream' = stream \o SubSeq(pty, 1, n)
    /\ wpc' = "feed"
    /\ nreads' = nreads + 1
    /\ lastread' = "data"
    /\ UNCHANGED <<closed, nwrites, parser, ansi, panic, queue, uiVars,
                   written, published, ndestroy, appseq,
                   frontVars>>

\* (mutant of AfterZeroRead: no break, the loop body goes on)
AfterZeroReadFallThrough == "feed"

\* Where the loop goes when read returns Ok(0): if len == 0 { break; }
AfterZeroRead == "destroy"

\* reader.read(&mut buf) returns Ok(0): the slave side is closed and
\* everything written has been read.
ReadEof ==
    /\ ~quit /\ wpc = "read" /\ pty = <<>> /\ closed
    /\ len' = 0
    /\ wpc' = AfterZeroRead
    /\ lastread' = "eof"
    /\ UNCHANGED <<envVars, buf, parser, ansi, panic, queue, uiVars,
                   stream, written, published, nreads, ndestroy, appseq,
                   frontVars>>

\* reader.read(&mut buf) returns Err (the error a closed slave side gives
\* on some platforms instead of Ok(0)): while let Ok(len) ends the loop
ReadErr ==
    /\ ~quit /\ wpc = "read" /\ pty = <<>> /\ closed
    /\ wpc' = "destroy"
    /\ lastread' = "err"
    /\ UNCHANGED <<envVars, buf, len, parser, ansi, panic, queue, uiVars,
                   stream, written, published, nreads, ndestroy, appseq,
                   frontVars>>

\* (mutant of FeedBuf: a parser of its own for every chunk)
FeedBufFreshParser(rs, b, n) ==
    AdvanceAll([rs EXCEPT !.parser = ParserNew], SubSeq(b, 1, n))

\* for b in &buf[0..len] { parser.advance(&mut ansi, *b); }
FeedBuf(rs, b, n) == AdvanceAll(rs, SubSeq(b, 1, n))

Feed ==
    /\ ~quit /\ wpc = "feed"
    /\ LET rs == FeedBuf([parser |-> parser, ansi |-> ansi, panic |-> panic,
                          written |-> written], buf, len)
       IN  /\ parser' = rs.parser
           /\ ansi' = rs.ansi
           /\ panic' = rs.panic
           /\ written' = rs.written
           /\ wpc' = IF rs.panic # "none" THEN "panicked" ELSE "publish"
    /\ UNCHANGED <<envVars, buf, len, queue, uiVars,
                   stream, published, nreads, lastread, ndestroy, appseq,
                   frontVars>>

\* HelixUIState { grid: ansi.grid.to_vec(), cursor: (ansi.row, ansi.col) }
HelixUIState(a) == [grid |-> a.grid, cursor |-> <<a.row, a.col>>]

\* buf = [0u8; 128]; sink.submit_command(UPDATE_UI, HelixUIState {..}, Target::Auto)
Publish ==
    /\ ~quit /\ wpc = "publish"
    /\ buf' = BufNew
    /\ len' = 0
    /\ queue' = Append(queue, [selector |-> "UPDATE_UI",
                               payload |-> Some(HelixUIState(ansi)),
                               seq |-> Len(published) + 1])
    /\ published' = Append(published, HelixUIState(ansi))
    /\ wpc' = "read"
    /\ UNCHANGED <<envVars, parser, ansi, panic, uiVars,
                   stream, written, nreads, lastread, ndestroy, appseq,
                   frontVars>>

\* (mutant of Destroy: the thread ends without the command)
DestroyNotSubmitted ==
    /\ ~quit /\ wpc = "destroy"
    /\ wpc' = "done"
    /\ UNCHANGED <<envVars, buf, len, parser, ansi, panic, queue, uiVars, histVars,
                   frontVars>>

\* after the loop: sink.submit_command(DESTROY_UI, (), Target::Auto)
Destroy ==
    /\ ~quit /\ wpc = "destroy"
    /\ queue' = Append(queue, [selector |-> "DESTROY_UI", payload |-> None, seq |-> 0])
    /\ ndestroy' = ndestroy + 1
    /\ wpc' = "done"
    /\ UNCHANGED <<envVars, buf, len, parser, ansi, panic, uiVars,
                   stream, written, published, nreads, lastread, appseq,
                   frontVars>>

-----------------------------------------------------------------------------
(* The UI context: the event loop hands the submitted commands to          *)
(* Delegate::command one by one, in the order of submission.               *)

\* (mutant of Deliver: the newest command first)
DeliverNewestFirst(q) == [cmd |-> q[Len(q)], rest |-> SubSeq(q, 1, Len(q) - 1)]

Deliver(q) == [cmd |-> Head(q), rest |-> Tail(q)]

\* (mutant of UpdateUi: the grid is the interpreter's own, not the copy made
\* when the command was submitted)
UpdateUiLive(data, ui_state) ==
    [data EXCEPT !.grid = ansi.grid, !.cursor_pos = <<ansi.row, ansi.col>>]

\* data.grid = ui_state.grid.to_vec(); data.cursor_pos = ui_state.cursor;
UpdateUi(data, ui_state) ==
    [data EXCEPT !.grid = ui_state.grid, !.cursor_pos = ui_state.cursor]

\* fn command(&mut self, _ctx, _target, cmd, data, _env)
Command ==
    /\ ~quit /\ queue # <<>>
    /\ LET cmd == Deliver(queue).cmd IN
         IF cmd.selector = "UPDATE_UI"
         THEN /\ app' = UpdateUi(app, cmd.payload[1])
              /\ appseq' = cmd.seq
              /\ quit' = quit
         ELSE /\ quit' = TRUE
              /\ UNCHANGED <<app, appseq>>
    /\ queue' = Deliver(queue).rest
    /\ UNCHANGED <<envVars, workerVars,
                   stream, written, published, nreads, lastread, ndestroy,
                   frontVars>>

\* (mutant of PtyWrite: the byte overtakes the bytes written before)
PtyWriteFirst(q, c) == <<c>> \o q

\* pair.0.master.write(&[c]): PTY_WRITER holds the pair for as long as the
\* process runs, and only Delegate::event, on the UI thread, writes to it
PtyWrite(q, c) == Append(q, c)

\* An event: [type |-> "KeyDown" or "Other", key |-> the name of the Key
\* ("Character" for Key::Character), ch |-> its character (0 for a named
\* key), ctrl |-> modifiers.ctrl()]
KeyDownEvent(key, ch, ctrl) == [type |-> "KeyDown", key |-> key, ch |-> ch, ctrl |-> ctrl]

OtherEvent == [type |-> "Other", key |-> "None", ch |-> 0, ctrl |-> FALSE]

\* chs.is_lowercase() && chs.is_alphabetic(); the name of a named key starts
\* with a capital
IsLowerAlpha(ev) == ev.key = "Character" /\ ev.ch \in 97..122

\* 'a' => 0x01, ..., 'i' => 0x09, 'j' => 0x10, ..., 't' => 0x1a,
\* 'u' => 0x21, ..., 'z' => 0x26, _ => chs as u8
CtrlTable(chs) ==
    CASE chs = 97 -> 1
      [] chs = 98 -> 2
      [] chs = 99 -> 3
      [] chs = 100 -> 4
      [] chs = 101 -> 5
      [] chs = 102 -> 6
      [] chs = 103 -> 7
      [] chs = 104 -> 8
      [] chs = 105 -> 9
      [] chs = 106 -> 16
      [] chs = 107 -> 17
      [] chs = 108 -> 18
      [] chs = 109 -> 19
      [] chs = 110 -> 20
      [] chs = 111 -> 21
      [] chs = 112 -> 22
      [] chs = 113 -> 23
      [] chs = 114 -> 24
      [] chs = 115 -> 25
      [] chs = 116 -> 26
      [] chs = 117 -> 33
      [] chs = 118 -> 34
      [] chs = 119 -> 35
      [] chs = 120 -> 36
      [] chs = 121 -> 37
      [] chs = 122 -> 38
      [] OTHER -> chs % 256

\* key_event.key.legacy_charcode() as u8: the character of Key::Character,
\* 0 for every other key
LegacyCharcode(ev) == IF ev.key = "Character" THEN ev.ch % 256 ELSE 0

\* (mutant of KeyByte: Enter sends a line feed)
KeyByteEnterLf(ev) ==
    CASE ev.key = "Escape" -> 27
      [] ev.key = "Backspace" -> 8
      [] ev.key = "Tab" -> 9
      [] ev.key = "Enter" -> 10
      [] OTHER -> IF IsLowerAlpha(ev) /\ ev.ctrl THEN CtrlTable(ev.ch)
                                                  ELSE LegacyCharcode(ev)

\* let c = match key_event.key { ... }
KeyByte(ev) ==
    CASE ev.key = "Escape" -> 27
      [] ev.key = "Backspace" -> 8
      [] ev.key = "Tab" -> 9
      [] ev.key = "Enter" -> 13
      [] OTHER -> IF IsLowerAlpha(ev) /\ ev.ctrl THEN CtrlTable(ev.ch)
                                                  ELSE LegacyCharcode(ev)

\* fn event(&mut self, _ctx, _window_id, event, _data, _env): a key-down
\* event writes its byte, unless it is 0; every event is returned as it came
KeyDown(events) ==
    /\ ~quit /\ Len(keylog) < MaxKeys
    /\ \E ev \in events :
          LET c == IF ev.type = "KeyDown" THEN KeyByte(ev) ELSE 0
          IN  /\ ptyin' = IF c # 0 THEN PtyWrite(ptyin, c) ELSE ptyin
              /\ keylog' = Append(keylog, [event |-> ev, c |-> c, returned |-> Some(ev)])
    /\ UNCHANGED <<envVars, workerVars, queue, uiVars, histVars, drawn>>

\* (mutant of CursorGuard: one row and one column too many)
CursorGuardLoose(cursor_row, cursor_col) == cursor_row <= ROWS /\ cursor_col <= COLS

\* if cursor_row <= 24 && cursor_col <= 80
CursorGuard(cursor_row, cursor_col) == cursor_row <= 24 /\ cursor_col <= 80

\* The indexes [row][col] of data.grid the Painter closure reads whatever
\* the data: the mode in grid[23][2..=4] and every cell of the rows 0..=24
PainterFixedReads ==
    {<<23, col>> : col \in 2..4}
        \cup {<<row, col>> : row \in 0..24, col \in 0..(COLS - 1)}

PainterFixedFault == ~(PainterFixedReads \subseteq GridIndexes)

\* and the cell under the cursor, data.grid[cursor_row][cursor_col], when
\* the guard lets it
PainterCursorReads(data) ==
    IF CursorGuard(data.cursor_pos[1], data.cursor_pos[2])
    THEN {data.cursor_pos} ELSE {}

\* Painter::new(|ctx, data: &AppState, env| { ... }): what one call draws;
\* an index outside the array is a panic of the UI thread
ui(data) ==
    [cursor |-> IF CursorGuard(data.cursor_pos[1], data.cursor_pos[2])
                THEN Some(data.cursor_pos) ELSE None,
     fault |-> PainterFixedFault \/ ~(PainterCursorReads(data) \subseteq GridIndexes)]

\* druid calls the Painter to draw the window from the AppState
Paint ==
    /\ ~quit
    /\ IF drawn = None THEN TRUE ELSE ~drawn[1].fault
    /\ drawn' = Some(ui(app))
    /\ UNCHANGED <<envVars, workerVars, queue, uiVars, histVars, ptyin, keylog>>

-----------------------------------------------------------------------------

NextOver(items) ==
    \/ ChildWrite(items)
    \/ ChildExit
    \/ ReadData
    \/ ReadEof
    \/ ReadErr
    \/ Feed
    \/ Publish
    \/ Destroy
    \/ Command

Next == NextOver(Items)

Spec == Init /\ [][Next]_vars

\* The reader thread is a thread of its own: once it is past the loop, it
\* gets to run its last statement.
FairSpec == Spec /\ WF_vars(Destroy)

-----------------------------------------------------------------------------
(* The program with its keyboard: the child writes single characters, the  *)
(* reader thread reads and publishes them, and the UI handles key events.  *)

KeyItems == {<<89>>}

KeyEvents ==
    {KeyDownEvent("Character", 97, FALSE), KeyDownEvent("Character", 97, TRUE),
     KeyDownEvent("Escape", 0, FALSE), KeyDownEvent("ArrowUp", 0, FALSE), OtherEvent}

KeyNext == NextOver(KeyItems) \/ KeyDown(KeyEvents)

KeySpec == Init /\ [][KeyNext]_vars

(* The program with its window: the child moves the write position out    *)
(* of the grid, and the UI draws what it holds.                            *)

PaintItems == {<<89>>, Csi(<<5, 80>>, 72), Csi(<<25, 99999>>, 72)}

PaintNext == NextOver(PaintItems) \/ Paint

PaintSpec == Init /\ [][PaintNext]_vars

(* Delegate::event alone, over the keys of the keyboard                    *)

AllKeyEvents ==
    {KeyDownEvent(k, 0, ctrl) :
        k \in {"Escape", "Backspace", "Tab", "Enter", "ArrowUp"}, ctrl \in BOOLEAN}
    \cup {KeyDownEvent("Character", ch, TRUE) : ch \in 97..122}
    \cup {KeyDownEvent("Character", ch, ctrl) : ch \in {65, 49}, ctrl \in BOOLEAN}
    \cup {KeyDownEvent("Character", ch, FALSE) : ch \in {97, 122, 32}}
    \cup {OtherEvent}

KeyMapSpec == Init /\ [][KeyDown(AllKeyEvents)]_vars

-----------------------------------------------------------------------------
(* The interpreter alone: parser.advance(&mut ansi, b) applied to the      *)
(* bytes of an input, one byte a step.  The input is in the pseudo-        *)
(* terminal from the start (the child has written it before the first      *)
(* read); stream is what has been consumed of it.                          *)

\* The concatenations of at most n of the items
RECURSIVE Concats(_, _)
Concats(items, n) ==
    IF n = 0 THEN {<<>>}
    ELSE LET shorter == Concats(items, n - 1)
         IN  shorter \cup {s \o item : s \in shorter, item \in items}

InterpInit(items) == pty \in Concats(items, MaxSeq) /\ InitRest

\* parser.advance(&mut ansi, *b) for the next byte
AdvanceByte ==
    /\ pty # <<>> /\ panic = "none"
    /\ LET rs == advance([parser |-> parser, ansi |-> ansi, panic |-> panic,
                          written |-> written], Head(pty))
       IN  /\ parser' = rs.parser
           /\ ansi' = rs.ansi
           /\ panic' = rs.panic
           /\ written' = rs.written
    /\ pty' = Tail(pty)
    /\ stream' = Append(stream, Head(pty))
    /\ UNCHANGED <<closed, nwrites, wpc, buf, len, queue, uiVars,
                   published, nreads, lastread, ndestroy, appseq, frontVars>>

\* ESC [ 3 ; 3 H h i ESC [ 38 ; 2 ; 0 ; 255 ; 0 m o k, whole and in its parts
EndToEndParts ==
    <<Csi(<<3, 3>>, 72), <<104, 105>>, Csi(<<38, 2, 0, 255, 0>>, 109), <<111, 107>>>>

EndToEndStream == Flatten(EndToEndParts)

EndToEndItems == {EndToEndStream} \cup {EndToEndParts[i] : i \in 1..4}

EndToEndSpec == InterpInit(EndToEndItems) /\ [][AdvanceByte]_vars

\* Colour selections and characters: ESC [ 38;2;255;0;0 m, the same followed
\* by 'X', ESC [ 48;2;0;0;255 m, ESC [ 39 m, ESC [ 49 m, ESC [ 0 m, 'Y'
SgrParams == {<<38, 2, 255, 0, 0>>, <<48, 2, 0, 0, 255>>, <<39>>, <<49>>, <<0>>}

SgrItems ==
    {Csi(ps, 109) : ps \in SgrParams}
        \cup {Csi(<<38, 2, 255, 0, 0>>, 109) \o <<88>>, <<89>>}

SgrSpec == InterpInit(SgrItems) /\ [][AdvanceByte]_vars

\* Colour selections with further parameters behind the leading values:
\* ESC [ 0;1 m, ESC [ 39;49 m, ESC [ 49;1 m, ESC [ 38;2;1;2;3;4 m,
\* ESC [ 48;2;1;2;3;4 m; with them two plain selections and 'Y'
SgrLongParams ==
    {<<0, 1>>, <<39, 49>>, <<49, 1>>, <<38, 2, 1, 2, 3, 4>>, <<48, 2, 1, 2, 3, 4>>}

SgrLongItems ==
    {Csi(ps, 109) : ps \in SgrLongParams}
        \cup {Csi(<<38, 2, 255, 0, 0>>, 109), Csi(<<48, 2, 0, 0, 255>>, 109), <<89>>}

SgrLongSpec == InterpInit(SgrLongItems) /\ [][AdvanceByte]_vars

\* Control sequences the interpreter does not know: ESC [ 1;2 Z, ESC [ 2 J,
\* ESC [ K, ESC [ ? 25 l, ESC [ 7 m, ESC [ 38;5;1 m
UnknownCsi ==
    {Csi(<<1, 2>>, 90), Csi(<<2>>, 74), Csi(<<>>, 75), <<ESC_CHAR, 91, 63, 50, 53, 108>>,
     Csi(<<7>>, 109), Csi(<<38, 5, 1>>, 109)}

\* with them a colour selection, a cursor position and a character
UnknownCsiItems ==
    UnknownCsi \cup {Csi(<<48, 2, 0, 0, 255>>, 109), Csi(<<5, 10>>, 72), <<89>>}

UnknownCsiSpec == InterpInit(UnknownCsiItems) /\ [][AdvanceByte]_vars

\* Sequences that carry fewer parameters than their arm reads: ESC [ H,
\* ESC [ 5 H, ESC [ 38;2 m, ESC [ 48;2;1 m
ShortCsi ==
    {Csi(<<>>, 72), Csi(<<5>>, 72), Csi(<<38, 2>>, 109), Csi(<<48, 2, 1>>, 109)}

\* with them a cursor position and a character
ShortCsiItems == ShortCsi \cup {Csi(<<5, 10>>, 72), <<89>>}

ShortCsiSpec == InterpInit(ShortCsiItems) /\ [][AdvanceByte]_vars

\* The other escape classes: ESC 7, the operating-system command
\* ESC ] 0 ; t BEL, the device-control string ESC P q x ESC \, and the C0
\* controls newline, carriage return, backspace, tab and bell
OtherEscapes ==
    {<<ESC_CHAR, 55>>, <<ESC_CHAR, 93, 48, 59, 116, BELL_CHAR>>,
     <<ESC_CHAR, 80, 113, 120, ESC_CHAR, 92>>,
     <<NEWLINE_CHAR>>, <<13>>, <<8>>, <<9>>, <<BELL_CHAR>>}

\* with them a colour selection, a cursor position and a character
OtherEscapeItems ==
    OtherEscapes \cup {Csi(<<48, 2, 0, 0, 255>>, 109), Csi(<<5, 10>>, 72), <<89>>}

OtherEscapeSpec == InterpInit(OtherEscapeItems) /\ [][AdvanceByte]_vars

-----------------------------------------------------------------------------
(* Shorthands of the properties *)

\* The interpreter's state after the whole stream read so far, fed as one
\* contiguous chunk to a new parser and a new ANSIParser
Contiguous == AdvanceAll(RunNew, stream)

\* buf[0..len]
Chunk == SubSeq(buf, 1, len)

\* What a Cell holds for a current colour
Stored(color) == IF color = None THEN None ELSE Some(ColorRgb(color[1]))

IsUpdate(cmd) == cmd.selector = "UPDATE_UI"

\* The UPDATE_UI commands submitted and not yet delivered
QueuedUpdates == SelectSeq(queue, IsUpdate)

EndsWith(s, t) == Len(t) <= Len(s) /\ SubSeq(s, Len(s) - Len(t) + 1, Len(s)) = t

\* The interpreter after the stream consumed so far but for its last n bytes
BeforeLast(n) == AdvanceAll(RunNew, SubSeq(stream, 1, Len(stream) - n))

-----------------------------------------------------------------------------
(* C1.  Out-of-range addressing never crashes the worker: a print issued   *)
(* while the write position is outside the grid (after a CSI H with row    *)
(* >= 25 or column >= 81, or after a print into column 80) is clamped or   *)
(* reported, and the worker goes on.  The code panics in print instead.    *)
C1_OutOfRangeNeverCrashes == panic # "grid index out of bounds"

C3_ChunkingInvisible ==
    wpc # "feed" =>
        [parser |-> parser, ansi |-> ansi, panic |-> panic, written |-> written]
            = Contiguous

\* one control sequence, cut into three chunks, has moved the write position
C3_Witness ==
    /\ nwrites = 1 /\ nreads = 3 /\ wpc = "publish"
    /\ stream = Csi(<<5, 80>>, 72)
    /\ ansi.row = 5 /\ ansi.col = 80

(* C4.  Exactly one snapshot per read that returned data: between two      *)
(* iterations as many UPDATE_UI commands have been submitted as reads have *)
(* returned more than zero bytes, each after its chunk was fed and each    *)
(* equal to the interpreter's grid and (row, col) at that moment.  A panic *)
(* while feeding (C1) leaves a read without its snapshot.                  *)
C4_OneSnapshotPerRead ==
    /\ wpc \in {"feed", "publish"} => Len(published) = nreads - 1
    /\ wpc \notin {"feed", "publish"} => Len(published) = nreads
    /\ (wpc = "read" /\ nreads > 0) =>
            published[Len(published)] = HelixUIState(ansi)

(* C5.  Snapshots reach the consumer in stream order and the latest wins:  *)
(* the AppState is the initial blank state or the contents of one          *)
(* published snapshot, the commands still queued are the later snapshots   *)
(* in order, the index of the snapshot held never decreases, and when      *)
(* nothing is queued the AppState holds the last snapshot published.       *)
C5_Order ==
    /\ appseq \in 0..Len(published)
    /\ appseq = 0 => app = AppStateNew
    /\ appseq > 0 => \E i \in 1..Len(published) :
                        /\ i = appseq
                        /\ app.grid = published[i].grid
                        /\ app.cursor_pos = published[i].cursor
    /\ Len(QueuedUpdates) = Len(published) - appseq
    /\ \A i \in 1..Len(QueuedUpdates) :
           /\ QueuedUpdates[i].seq = appseq + i
           /\ QueuedUpdates[i].payload = Some(published[appseq + i])
    /\ queue = <<>> => appseq = Len(published)

C5_LatestWins == [](C5_Order) /\ [][appseq' >= appseq]_vars

\* the consumer has caught up after three different snapshots
C5_Witness ==
    /\ queue = <<>> /\ appseq = 3
    /\ published[1] # published[2] /\ published[2] # published[3]
    /\ app.grid = published[3].grid

(* C6.  Session end is always signalled: in every run in which a read      *)
(* returns zero bytes or fails, whatever was read before, the worker       *)
(* eventually submits DESTROY_UI.                                          *)
C6_SessionEndSignalled == (lastread \in {"eof", "err"}) ~> (ndestroy = 1)

\* data was read and published, the read then failed, the command is queued
C6_Witness ==
    /\ lastread = "err" /\ nreads >= 2 /\ ndestroy = 1
    /\ Len(queue) >= 1 /\ queue[Len(queue)].selector = "DESTROY_UI"

(* C7.  DESTROY_UI is submitted at most once, only after a read returned   *)
(* zero bytes or an error, and it is the last command the worker submits:  *)
(* it is behind every UPDATE_UI in the queue, and from the read that ended *)
(* the loop on no snapshot is published, none for that read itself.        *)
C7_State ==
    /\ ndestroy \in {0, 1}
    /\ ndestroy = 1 => (lastread \in {"eof", "err"} /\ wpc = "done")
    /\ \A i \in 1..Len(queue) :
           queue[i].selector = "DESTROY_UI" => (i = Len(queue) /\ ndestroy = 1)

C7_DestroyOnceAndLast ==
    /\ [](C7_State)
    /\ [][lastread' \in {"eof", "err"} => published' = published]_vars

\* snapshots were published, the read returned zero bytes, DESTROY_UI was
\* submitted behind a snapshot still queued
C7_Witness ==
    /\ lastread = "eof" /\ ndestroy = 1 /\ Len(published) >= 2
    /\ Len(queue) >= 2
    /\ queue[Len(queue) - 1].selector = "UPDATE_UI"
    /\ queue[Len(queue)].selector = "DESTROY_UI"

(* C8.  Snapshot isolation: a queued snapshot and the AppState keep the    *)
(* grid and cursor of their publication point whatever the interpreter     *)
(* consumes afterwards, a step of the interpreter changes neither, and a   *)
(* step of the consumer changes nothing of the interpreter.                *)
C8_Copies ==
    /\ \A i \in 1..Len(queue) :
           IsUpdate(queue[i]) => queue[i].payload = Some(published[queue[i].seq])
    /\ appseq > 0 => /\ app.grid = published[appseq].grid
                     /\ app.cursor_pos = published[appseq].cursor

C8_SnapshotIsolation ==
    /\ [](C8_Copies)
    /\ [][/\ \A i \in 1..Len(published) : published'[i] = published[i]
          /\ <<ansi, parser>>' # <<ansi, parser>> =>
                 UNCHANGED <<app, queue, published>>
          /\ <<app, quit>>' # <<app, quit>> =>
                 UNCHANGED <<ansi, parser, panic, wpc, buf, len>>]_vars

\* the consumer holds the first snapshot, the second is queued, and the
\* interpreter has changed its grid and position since both
C8_Witness ==
    /\ appseq = 1 /\ Len(queue) = 1 /\ IsUpdate(queue[1])
    /\ wpc = "publish"
    /\ ansi.grid # published[2].grid
    /\ published[2].grid # published[1].grid
    /\ app.grid = published[1].grid /\ app.grid # ansi.grid

(* C9.  Printing fills cells left to right: from a write position (r, c)   *)
(* on a grid row, a chunk of n printable bytes, c + n <= 81, fed to a      *)
(* parser in its ground state sets cell (r, c + i) to the i-th character   *)
(* with the current foreground and background, leaves row at r, col at     *)
(* c + n and the colours as they were, and changes no other cell.          *)
AllPrintable(bytes) == \A i \in 1..Len(bytes) : bytes[i] \in 32..126

C9_Printed(a, bytes, r, c) ==
    GridAt(a.grid, r, c) =
        IF r = ansi.row /\ c \in ansi.col..(ansi.col + Len(bytes) - 1)
        THEN [content |-> bytes[c - ansi.col + 1],
              bg |-> Stored(ansi.current_bg), fg |-> Stored(ansi.current_fg)]
        ELSE GridAt(ansi.grid, r, c)

C9_PrintFillsLeftToRight ==
    [][(/\ wpc = "feed" /\ wpc' # "feed"
        /\ parser.state = "Ground"
        /\ AllPrintable(Chunk)
        /\ ansi.row < ROWS /\ ansi.col + len <= COLS)
       => /\ wpc' = "publish"
          /\ ansi'.row = ansi.row
          /\ ansi'.col = ansi.col + len
          /\ ansi'.current_fg = ansi.current_fg
          /\ ansi'.current_bg = ansi.current_bg
          /\ \A ix \in GridIndexes : C9_Printed(ansi', Chunk, ix[1], ix[2])]_vars

\* two characters printed in one chunk from (0, 0), with a background colour
\* set before
C9_Witness ==
    /\ wpc = "publish" /\ Chunk = TextAB
    /\ ansi.row = 0 /\ ansi.col = 2
    /\ ansi.current_bg = Some(<<0, 0, 255>>)
    /\ GridAt(ansi.grid, 0, 0) = [content |-> 97, bg |-> Some(<<0, 0, 255>>), fg |-> None]
    /\ GridAt(ansi.grid, 0, 1) = [content |-> 98, bg |-> Some(<<0, 0, 255>>), fg |-> None]

(* C10.  CSI r ; c H sets row to exactly r and col to exactly c, without   *)
(* subtracting one, and changes neither the grid nor the colours: when the *)
(* stream read so far ends with ESC [ r ; c H, the interpreter is what it  *)
(* was before these bytes, but for row = r and col = c.                    *)
C10Positions == {5, 10, 25, 80, 81}

C10_Before(r, c) ==
    AdvanceAll(RunNew, SubSeq(stream, 1, Len(stream) - Len(Csi(<<r, c>>, 72))))

C10_CursorPosition ==
    (wpc # "feed" /\ stream # <<>> /\ stream[Len(stream)] = 72) =>
        \A r \in C10Positions, c \in C10Positions :
            EndsWith(stream, Csi(<<r, c>>, 72)) =>
                LET before == C10_Before(r, c)
                IN  before.panic = "none" =>
                        /\ panic = "none"
                        /\ ansi = [before.ansi EXCEPT !.row = r, !.col = c]

\* text was printed, then CSI 5 ; 80 H arrived: row 5, col 80, same grid
C10_Witness ==
    /\ wpc = "read"
    /\ stream = TextAB \o Csi(<<5, 80>>, 72)
    /\ ansi.row = 5 /\ ansi.col = 80
    /\ GridAt(ansi.grid, 0, 0).content = 97 /\ GridAt(ansi.grid, 0, 1).content = 98

(* C11.  End to end, as the code does it: from the initial state, the      *)
(* stream ESC [ 3 ; 3 H h i ESC [ 38 ; 2 ; 0 ; 255 ; 0 m o k leaves 'h' at *)
(* (3,3) and 'i' at (3,4) with no colours, 'o' at (3,5) and 'k' at (3,6)   *)
(* with foreground (0,255,0) and no background, every other cell blank,    *)
(* and the write position at (3,7): CSI H stores its parameters as they    *)
(* are (C10).                                                              *)
C11_Grid(r, c0) ==
    LET plain(ch) == [content |-> ch, bg |-> None, fg |-> None]
        green(ch) == [content |-> ch, bg |-> None, fg |-> Some(<<0, 255, 0>>)]
    IN  [ix \in GridIndexes |->
            CASE ix = <<r, c0>> -> plain(104)
              [] ix = <<r, c0 + 1>> -> plain(105)
              [] ix = <<r, c0 + 2>> -> green(111)
              [] ix = <<r, c0 + 3>> -> green(107)
              [] OTHER -> CellNew]

C11_Yields(r, c0) ==
    /\ panic = "none"
    /\ \A ix \in GridIndexes : GridAt(ansi.grid, ix[1], ix[2]) = C11_Grid(r, c0)[ix]
    /\ ansi.row = r /\ ansi.col = c0 + 4

C11_EndToEnd == stream = EndToEndStream => C11_Yields(3, 3)

(* C11 as stated: the same stream leaves 'h' at (2,2), 'i' at (2,3), 'o'   *)
(* at (2,4), 'k' at (2,5) and the cursor at (2,6).                         *)
C11_AsStated == stream = EndToEndStream => C11_Yields(2, 2)

\* the whole stream has been consumed from the initial state
C11_Witness ==
    /\ stream = EndToEndStream /\ pty = <<>>
    /\ GridAt(ansi.grid, 3, 6) = [content |-> 107, bg |-> None, fg |-> Some(<<0, 255, 0>>)]
    /\ ansi.row = 3 /\ ansi.col = 7

(* C12.  SGR colour selection: CSI 38;2;R;G;B m sets the current           *)
(* foreground to (R,G,B) and leaves the background, CSI 48;2;R;G;B m sets  *)
(* the background and leaves the foreground, CSI 39 m clears only the      *)
(* foreground, CSI 49 m only the background, CSI 0 m both; nothing else of *)
(* the interpreter changes, and a character printed next carries exactly   *)
(* the resulting colours.                                                  *)
C12_Selected(ps, a) ==
    CASE ps[1] = 38 -> [fg |-> Some(<<ps[3], ps[4], ps[5]>>), bg |-> a.current_bg]
      [] ps[1] = 48 -> [fg |-> a.current_fg, bg |-> Some(<<ps[3], ps[4], ps[5]>>)]
      [] ps[1] = 39 -> [fg |-> None, bg |-> a.current_bg]
      [] ps[1] = 49 -> [fg |-> a.current_fg, bg |-> None]
      [] ps[1] = 0 -> [fg |-> None, bg |-> None]

C12_SgrSelection ==
    \A ps \in SgrParams :
        /\ EndsWith(stream, Csi(ps, 109)) =>
              LET before == BeforeLast(Len(Csi(ps, 109)))
                  sel == C12_Selected(ps, before.ansi)
              IN  before.panic = "none" =>
                    /\ panic = "none"
                    /\ ansi = [before.ansi EXCEPT !.current_fg = sel.fg,
                                                  !.current_bg = sel.bg]
        /\ \A ch \in {88, 89} :
              EndsWith(stream, Csi(ps, 109) \o <<ch>>) =>
                LET before == BeforeLast(Len(Csi(ps, 109)) + 1)
                    sel == C12_Selected(ps, before.ansi)
                IN  before.panic = "none" =>
                      /\ panic = "none"
                      /\ GridAt(ansi.grid, before.ansi.row, before.ansi.col) =
                            [content |-> ch, bg |-> Stored(sel.bg), fg |-> Stored(sel.fg)]

\* 38;2;255;0;0 m then 'X' gave a cell with foreground (255,0,0); 39 m then
\* 'Y' gave a cell with no foreground
C12_Witness ==
    /\ stream = Csi(<<38, 2, 255, 0, 0>>, 109) \o <<88>> \o Csi(<<39>>, 109) \o <<89>>
    /\ GridAt(ansi.grid, 0, 0) = [content |-> 88, bg |-> None, fg |-> Some(<<255, 0, 0>>)]
    /\ GridAt(ansi.grid, 0, 1) = [content |-> 89, bg |-> None, fg |-> None]

(* C13.  CSI m is interpreted by its first one or two values only: with    *)
(* further parameters behind them, a first value of 0 still clears both    *)
(* colours, 39 the foreground, 49 the background, and 38;2 / 48;2 still    *)
(* set the colour from the next three values.  The code matches 0, 39 and  *)
(* 49 only when they are the whole parameter list.                         *)
C13_FirstValuesOnly ==
    \A ps \in SgrLongParams :
        EndsWith(stream, Csi(ps, 109)) =>
            LET before == BeforeLast(Len(Csi(ps, 109)))
                sel == C12_Selected(ps, before.ansi)
            IN  before.panic = "none" =>
                    /\ panic = "none"
                    /\ ansi = [before.ansi EXCEPT !.current_fg = sel.fg,
                                                  !.current_bg = sel.bg]

(* C14.  Unrecognised control sequences are no-ops: after a CSI sequence   *)
(* with a terminator other than 'H' and 'm', or a CSI m whose leading      *)
(* values are none of 38;2, 48;2, 39, 49, 0, the grid, the write position  *)
(* and the colours are what they were before it, and no byte consumed      *)
(* while the parser is inside a sequence changes the grid.                 *)
C14_NoOp ==
    \A u \in UnknownCsi :
        EndsWith(stream, u) =>
            LET before == BeforeLast(Len(u))
            IN  before.panic = "none" => (panic = "none" /\ ansi = before.ansi)

C14_UnknownCsiNoOp ==
    /\ [](C14_NoOp)
    /\ [][parser.state # "Ground" => ansi'.grid = ansi.grid]_vars

\* a blue background was selected and a character printed at (0,0), then
\* ESC [ 1;2 Z was consumed: same cell, same position, same colours
C14_Witness ==
    /\ stream = Csi(<<48, 2, 0, 0, 255>>, 109) \o <<89>> \o Csi(<<1, 2>>, 90)
    /\ ansi.row = 0 /\ ansi.col = 1 /\ ansi.current_bg = Some(<<0, 0, 255>>)
    /\ GridAt(ansi.grid, 0, 0) = [content |-> 89, bg |-> Some(<<0, 0, 255>>), fg |-> None]

(* C15.  Parsing-level anomalies are absorbed inside the interpreter: a    *)
(* CSI H with fewer than two parameters and a CSI m beginning 38;2 or 48;2 *)
(* with fewer than three components behind it cause no fault and leave the *)
(* grid and the colours as they were, so that the worker goes on with the  *)
(* following bytes.  The code panics on the unwrap of the missing          *)
(* parameter and on the index of the missing component.                    *)
C15_AnomaliesAbsorbed ==
    \A f \in ShortCsi :
        EndsWith(stream, f) =>
            LET before == BeforeLast(Len(f))
            IN  before.panic = "none" =>
                    /\ panic = "none"
                    /\ ansi.grid = before.ansi.grid
                    /\ ansi.current_fg = before.ansi.current_fg
                    /\ ansi.current_bg = before.ansi.current_bg

(* C16.  Other escape classes change nothing: wherever a single-character *)
(* escape, an operating-system command, a device-control string or one of  *)
(* the C0 controls newline, carriage return, backspace, tab, bell stands   *)
(* in the stream consumed so far (at a point where the parser is in its    *)
(* ground state), the grid, the write position, the colours, the parser's  *)
(* state and the absence of a panic are those of the same stream without   *)
(* it: it changes nothing itself, and what follows is interpreted as if it *)
(* had not been there.                                                     *)
C16_Without(e, i) ==
    LET pre == AdvanceAll(RunNew, SubSeq(stream, 1, i - 1))
        post == SubSeq(stream, i + Len(e), Len(stream))
        without == AdvanceAll(pre, post)
    IN  (pre.panic = "none" /\ pre.parser.state = "Ground") =>
            /\ ansi = without.ansi
            /\ panic = without.panic
            /\ parser.state = without.parser.state

C16_OtherEscapesNoOp ==
    \A e \in OtherEscapes :
        \A i \in 1..(Len(stream) - Len(e) + 1) :
            SubSeq(stream, i, i + Len(e) - 1) = e => C16_Without(e, i)

\* the cursor was set to (5,10), a newline consumed, and the character that
\* followed went to (5,10)
C16_Witness ==
    /\ stream = Csi(<<5, 10>>, 72) \o <<NEWLINE_CHAR>> \o <<89>>
    /\ ansi.row = 5 /\ ansi.col = 11
    /\ GridAt(ansi.grid, 5, 10).content = 89

(* C17.  Single writer on the write end: the bytes that have arrived on    *)
(* the pseudo-terminal are exactly the non-zero bytes of the key-down      *)
(* events handled, one each, in the order of handling; handling an event   *)
(* touches nothing of the worker and of the read end, and no step of the   *)
(* worker or of the child touches what was written.                        *)
C17_Sent(log) ==
    LET sent == SelectSeq(log, LAMBDA e : e.c # 0)
    IN  [i \in 1..Len(sent) |-> sent[i].c]

C18_Mapped(e) ==
    LET ev == e.event IN
    /\ e.returned = Some(ev)
    /\ ev.type = "KeyDown" =>
         /\ ev.key = "Escape" => e.c = 27
         /\ ev.key = "Backspace" => e.c = 8
         /\ ev.key = "Tab" => e.c = 9
         /\ ev.key = "Enter" => e.c = 13
         /\ (ev.key = "Character" /\ ev.ctrl /\ ev.ch \in 97..122) =>
                e.c \in (1..26) \cup (33..38)
         /\ (ev.key = "Character" /\ ~(ev.ctrl /\ ev.ch \in 97..122)) => e.c = ev.ch
         /\ ev.key \notin {"Escape", "Backspace", "Tab", "Enter", "Character"} => e.c = 0

C18_KeyMapping ==
    /\ \A i \in 1..Len(keylog) : C18_Mapped(keylog[i])
    /\ \A i, j \in 1..Len(keylog) :
          (/\ keylog[i].event.key = "Character" /\ keylog[j].event.key = "Character"
           /\ keylog[i].event.ctrl /\ keylog[j].event.ctrl
           /\ keylog[i].event.ch \in 97..122 /\ keylog[j].event.ch \in 97..122
           /\ keylog[i].event.ch # keylog[j].event.ch)
          => keylog[i].c # keylog[j].c

\* Enter and Ctrl+j were handled: 0x0D and 0x10 have been written
C18_Witness ==
    /\ Len(keylog) = 2
    /\ keylog[1].event = KeyDownEvent("Enter", 0, FALSE) /\ keylog[1].c = 13
    /\ keylog[2].event = KeyDownEvent("Character", 106, TRUE) /\ keylog[2].c = 16
    /\ ptyin = <<13, 16>>

(* C19.  Colour state is separate from the grid and persists: a byte that  *)
(* is printed leaves the current foreground and background as they were    *)
(* and its cell carries them, so the characters printed between two colour *)
(* changes carry the same colours; the final byte of a CSI m, and any step *)
(* that changes a current colour, changes no grid cell and not the write   *)
(* position, so cells printed earlier keep their colours.                  *)
C19_PrintStep == pty # <<>> /\ parser.state = "Ground" /\ Head(pty) \in 32..126

C19_SgrStep ==
    /\ pty # <<>> /\ Head(pty) = 109
    /\ parser.state \in {"CsiEntry", "CsiParam", "CsiIntermediate"}

C19_Colours(a) == <<a.current_fg, a.current_bg>>

C19_ColoursPersist ==
    [][/\ C19_PrintStep =>
            /\ C19_Colours(ansi') = C19_Colours(ansi)
            /\ panic' = "none" =>
                  /\ GridAt(ansi'.grid, ansi.row, ansi.col).fg = Stored(ansi.current_fg)
                  /\ GridAt(ansi'.grid, ansi.row, ansi.col).bg = Stored(ansi.current_bg)
       /\ (C19_SgrStep \/ C19_Colours(ansi') # C19_Colours(ansi)) =>
            /\ ansi'.grid = ansi.grid
            /\ ansi'.row = ansi.row /\ ansi'.col = ansi.col]_vars

\* 'X' and 'Y' were printed under one foreground, which was then cleared:
\* both cells still carry it
C19_Witness ==
    /\ stream = Csi(<<38, 2, 255, 0, 0>>, 109) \o <<88, 89>> \o Csi(<<39>>, 109)
    /\ ansi.current_fg = None
    /\ GridAt(ansi.grid, 0, 0) = [content |-> 88, bg |-> None, fg |-> Some(<<255, 0, 0>>)]
    /\ GridAt(ansi.grid, 0, 1) = [content |-> 89, bg |-> None, fg |-> Some(<<255, 0, 0>>)]

(* C20.  The consumer never indexes outside the 25 x 81 grid: no call of   *)
(* the Painter faults, the cell under the cursor is read (and the cursor   *)
(* drawn) only when the cursor's row is at most 24 and its column at most  *)
(* 80, a snapshot whose cursor is outside the grid is installed and drawn  *)
(* without the cursor, and no grid published or held has a cell outside    *)
(* the 25 rows of 81 cells.                                                *)
C20_PainterInBounds ==
    /\ DOMAIN app.grid \subseteq GridIndexes
    /\ \A i \in 1..Len(published) : DOMAIN published[i].grid \subseteq GridIndexes
    /\ ~ui(app).fault
    /\ drawn # None =>
          /\ ~drawn[1].fault
          /\ drawn[1].cursor # None =>
                (drawn[1].cursor[1][1] <= 24 /\ drawn[1].cursor[1][2] <= 80)

\* the snapshot published after a print into column 80 has its cursor at
\* (5,81); the consumer holds it and has drawn it without the cursor
C20_Witness ==
    /\ appseq >= 1 /\ app.cursor_pos = <<5, 81>>
    /\ GridAt(app.grid, 5, 80).content = 89
    /\ drawn = Some([cursor |-> None, fault |-> FALSE])

=============================================================================
